---- MODULE Spec2Model ----
(***************************************************************************)
(* The SuperStore KPI dashboard (CurrentDashboard_app.py): one script run  *)
(* per user interaction.  A run narrows the cached dataset through the     *)
(* region / state / category / sub-category select boxes and the date      *)
(* range, computes the KPI tiles, the daily and product groupings and the  *)
(* top-10 ranking, and finally draws the pie charts and the treemap.       *)
(*                                                                         *)
(* Categorical values (region, state, ... names) are modelled by positive  *)
(* integers whose order stands for the order of the strings; timestamps    *)
(* are integers counting TicksPerDay ticks per calendar day, tick 0 of a   *)
(* day being midnight; money amounts are integers (cents).  Every cell of *)
(* the sheet holds a value (no NaN), and the dataset has at least one row. *)
(***************************************************************************)
EXTENDS Integers, Sequences, FiniteSets, TLC

\* ---------------------------------------------------------------- bounds
\* Rows of a dataset drawn freely from RecordPool.
MaxRows == 2
\* Rows (and distinct products) of a wide dataset.
NWide == 11
\* Resolution of the time of day carried by an Order Date.
TicksPerDay == 2

\* ------------------------------------------------------ program constants
\* The "All" entry that heads every select box.
All == 0
\* product_grouped.head(10)
TopN == 10

kpi_options == <<"Sales", "Quantity", "Profit", "Margin Rate">>

\* ------------------------------------------------------------ the dataset
\* A row of the sheet, with the index label read_excel gives it.
Row(idx, date, region, state, category, subcat, product, sales, quantity, profit) ==
    [idx |-> idx, OrderDate |-> date, Region |-> region, State |-> state,
     Category |-> category, SubCategory |-> subcat, ProductName |-> product,
     Sales |-> sales, Quantity |-> quantity, Profit |-> profit]

\* The columns of the loaded frame that a chart may name as its values.
DfColumns == {"OrderDate", "Region", "State", "Category", "SubCategory",
              "ProductName", "Sales", "Quantity", "Profit"}

\* <<region, state, category, sub-category, product>>: state 2 lies in both
\* regions and sub-category 1 in both categories.
Places == {<<1, 1, 1, 1, 1>>, <<1, 2, 2, 1, 2>>, <<2, 2, 2, 2, 3>>}
\* <<order date, sales, quantity, profit>>: a sale of nothing at a loss at
\* midnight of day 0, a sale later on day 0, a sale at midnight of day 1.
Events == {<<0, 0, 1, -1>>, <<1, 2, 1, 1>>, <<TicksPerDay, 2, 2, 1>>}

RecordPool == {<<p, e>> : p \in Places, e \in Events}

PoolRow(idx, r) ==
    Row(idx, r[2][1], r[1][1], r[1][2], r[1][3], r[1][4], r[1][5],
        r[2][2], r[2][3], r[2][4])

SmallDatasets ==
    UNION {{[i \in 1..n |-> PoolRow(i - 1, s[i])] : s \in [1..n -> RecordPool]}
           : n \in 1..MaxRows}

\* A dataset of NWide products, one row each: region 1 holds states 1 and 2,
\* region 2 states 2 and up; order dates cycle through midnight of day 0,
\* later on day 0 and day 1.  Quantity ties in pairs, the lowest pair
\* straddling the top-10 cut; sales and profit are distinct, and under
\* pattern 2 the odd products have no sales.
WideRow(i, k) ==
    Row(i - 1, i % (TicksPerDay + 1), IF i <= 4 THEN 1 ELSE 2, (i + 2) \div 3,
        1 + (i % 2), 1 + ((i \div 2) % 2), i,
        IF k = 2 /\ i % 2 = 1 THEN 0 ELSE i, (i + 1) \div 2, i - 4)

WidePatterns == {1, 2}

WideDatasets == {[i \in 1..NWide |-> WideRow(i, k)] : k \in WidePatterns}

Datasets == SmallDatasets \cup WideDatasets

\* ------------------------------------------------------- frame operations
\* frame[col].dropna().unique(): the values a column takes.
Unique(frame, col) == {frame[i][col] : i \in DOMAIN frame}

SetMin(S) == CHOOSE x \in S : \A y \in S : x <= y
SetMax(S) == CHOOSE x \in S : \A y \in S : y <= x

\* sorted(...): the values in ascending order.
RECURSIVE Sorted(_)
Sorted(S) == IF S = {} THEN <<>> ELSE <<SetMin(S)>> \o Sorted(S \ {SetMin(S)})

\* Faulty variants of FilterEq: the column overwritten with v instead of
\* compared with it, and the comparison inverted.
FilterEqAssign(frame, col, v) == [i \in DOMAIN frame |-> [frame[i] EXCEPT ![col] = v]]
FilterEqNot(frame, col, v) ==
    LET Keep(r) == r[col] /= v IN SelectSeq(frame, Keep)

\* frame[frame[col] == v]: the rows whose column equals v, in frame order.
FilterEq(frame, col, v) ==
    LET Keep(r) == r[col] = v IN SelectSeq(frame, Keep)

\* Faulty variant of FilterBy: the selection is never applied.
FilterByNone(frame, col, selected) == frame

\* A select box over a column: "All", or the rows equal to the selection.
FilterBy(frame, col, selected) ==
    IF selected /= All THEN FilterEq(frame, col, selected) ELSE frame

\* sorted(frame[col].dropna().unique()): the values a select box lists.
Options(frame, col) == Sorted(Unique(frame, col))

Range(seq) == {seq[i] : i \in DOMAIN seq}

\* st.sidebar.selectbox(options=["All"] + values): what the user may pick.
Selectbox(values) == Range(<<All>> \o values)

\* st.date_input hands back a datetime.date: the day of a timestamp.
DateOf(ts) == ts \div TicksPerDay
\* pd.to_datetime(date): midnight of that day.
ToDatetime(date) == date * TicksPerDay

\* df[(df["Order Date"] >= pd.to_datetime(from_date))
\*    & (df["Order Date"] <= pd.to_datetime(to_date))]
DateFilter(frame, from, to) ==
    LET Keep(r) == /\ r.OrderDate >= ToDatetime(from)
                   /\ r.OrderDate <= ToDatetime(to)
    IN SelectSeq(frame, Keep)

\* ------------------------------------------------------------ aggregation
\* frame[col].sum(); 0 over no rows.
RECURSIVE ColSum(_, _)
ColSum(frame, col) ==
    IF frame = <<>> THEN 0 ELSE Head(frame)[col] + ColSum(Tail(frame), col)

\* A ratio num/den with den > 0.
Rat(num, den) == [num |-> num, den |-> den]
RatLess(a, b) == a.num * b.den < b.num * a.den
RatEq(a, b) == a.num * b.den = b.num * a.den

\* Faulty variant of GroupSum: agg("first") instead of agg("sum").
GroupFirst(frame, col, key) ==
    LET rows == FilterEq(frame, col, key)
    IN [key |-> key, Sales |-> rows[1].Sales, Quantity |-> rows[1].Quantity,
        Profit |-> rows[1].Profit]

\* One group of groupby(col).agg(sum): the key and the three sums.
GroupSum(frame, col, key) ==
    LET rows == FilterEq(frame, col, key)
    IN [key |-> key, Sales |-> ColSum(rows, "Sales"),
        Quantity |-> ColSum(rows, "Quantity"), Profit |-> ColSum(rows, "Profit")]

\* grouped["Profit"] / grouped["Sales"].replace(0, 1)
MarginRateOf(g) == Rat(g.Profit, IF g.Sales = 0 THEN 1 ELSE g.Sales)

\* groupby(col).agg({...sum}).reset_index() with the "Margin Rate" column
\* added: one row per key, keys ascending (groupby sorts its keys).
Grouped(frame, col) ==
    LET keys == Sorted(Unique(frame, col))
    IN [i \in DOMAIN keys |->
          LET g == GroupSum(frame, col, keys[i])
          IN g @@ ("Margin Rate" :> MarginRateOf(g))]

\* The value of a KPI column of a grouped row, as a ratio.
KpiValue(g, kpi) == IF kpi = "Margin Rate" THEN g[kpi] ELSE Rat(g[kpi], 1)

\* ---------------------------------------------------------------- ranking
\* sort_values(by=kpi, ascending=False) with the default kind="quicksort",
\* which pandas does not document as stable: every arrangement of the rows
\* in non-increasing order of the column is a possible result.
RECURSIVE Arrangements(_, _, _)
Arrangements(grouped, left, kpi) ==
    IF left = {} THEN {<<>>}
    ELSE LET top == {i \in left : \A j \in left :
                        ~RatLess(KpiValue(grouped[i], kpi), KpiValue(grouped[j], kpi))}
         IN UNION {{<<grouped[i]>> \o rest :
                      rest \in Arrangements(grouped, left \ {i}, kpi)} : i \in top}

\* Faulty variant of SortValuesDescending: the sort result is dropped
\* (sort_values without inplace=True) and the grouping stays in key order.
SortValuesDropped(grouped, kpi) == {grouped}

SortValuesDescending(grouped, kpi) == Arrangements(grouped, DOMAIN grouped, kpi)

\* frame.head(n)
HeadN(frame, n) == SubSeq(frame, 1, IF Len(frame) < n THEN Len(frame) ELSE n)

\* ------------------------------------------------------------- formatting
\* format_number: the amount scaled to millions or thousands with its
\* suffix (the rounding to two / one decimals is not modelled).
format_number(num) ==
    IF num >= 1000000 THEN [mantissa |-> Rat(num, 1000000), suffix |-> "M"]
    ELSE IF num >= 1000 THEN [mantissa |-> Rat(num, 1000), suffix |-> "K"]
    ELSE [mantissa |-> Rat(num, 1), suffix |-> ""]

\* ------------------------------------------------------------------ state
VARIABLES
    df_original,          \* the cached dataset
    pc,                   \* the section of the script the run has reached
    all_regions, selected_region, df_filtered_region,
    all_states, selected_state, df_filtered_state,
    all_categories, selected_category, df_filtered_category,
    all_subcats, selected_subcat,
    df,                   \* the frame being narrowed: the WorkingSet at the end
    min_date, max_date, from_date, to_date,
    sidebar_error,        \* st.sidebar.error was shown
    total_sales, total_quantity, total_profit, margin_rate,
    warning,              \* st.warning("No data available ...") was shown
    defined,              \* the names the else branch of the chart section bound
    selected_kpi, daily_grouped, product_grouped, top_10,
    exception             \* the uncaught exception that ended the run, or "none"

filter_vars == <<all_regions, selected_region, df_filtered_region,
                 all_states, selected_state, df_filtered_state,
                 all_categories, selected_category, df_filtered_category,
                 all_subcats, selected_subcat>>
date_vars == <<min_date, max_date, from_date, to_date, sidebar_error>>
kpi_vars == <<total_sales, total_quantity, total_profit, margin_rate>>
chart_vars == <<warning, defined, selected_kpi, daily_grouped, product_grouped, top_10>>

vars == <<df_original, pc, filter_vars, df, date_vars, kpi_vars, chart_vars, exception>>

\* A fresh script run: nothing bound yet but the cached dataset.
Fresh ==
    /\ pc = "region"
    /\ all_regions = <<>> /\ selected_region = All /\ df_filtered_region = <<>>
    /\ all_states = <<>> /\ selected_state = All /\ df_filtered_state = <<>>
    /\ all_categories = <<>> /\ selected_category = All /\ df_filtered_category = <<>>
    /\ all_subcats = <<>> /\ selected_subcat = All
    /\ df = <<>>
    /\ min_date = 0 /\ max_date = 0 /\ from_date = 0 /\ to_date = 0
    /\ sidebar_error = FALSE
    /\ total_sales = format_number(0) /\ total_quantity = format_number(0)
    /\ total_profit = format_number(0) /\ margin_rate = Rat(0, 1)
    /\ warning = FALSE /\ defined = {}
    /\ selected_kpi = "" /\ daily_grouped = <<>> /\ product_grouped = <<>>
    /\ top_10 = <<>>
    /\ exception = "none"

Init == df_original \in Datasets /\ Fresh

\* ---------------------------------------------------------- sidebar filters
RegionFilter ==
    /\ pc = "region"
    /\ all_regions' = Options(df_original, "Region")
    /\ selected_region' \in Selectbox(all_regions')
    /\ df_filtered_region' = FilterBy(df_original, "Region", selected_region')
    /\ pc' = "state"
    /\ UNCHANGED <<df_original, all_states, selected_state, df_filtered_state,
                   all_categories, selected_category, df_filtered_category,
                   all_subcats, selected_subcat, df, date_vars, kpi_vars,
                   chart_vars, exception>>

StateFilter ==
    /\ pc = "state"
    /\ all_states' = Options(df_filtered_region, "State")
    /\ selected_state' \in Selectbox(all_states')
    /\ df_filtered_state' = FilterBy(df_filtered_region, "State", selected_state')
    /\ pc' = "category"
    /\ UNCHANGED <<df_original, all_regions, selected_region, df_filtered_region,
                   all_categories, selected_category, df_filtered_category,
                   all_subcats, selected_subcat, df, date_vars, kpi_vars,
                   chart_vars, exception>>

CategoryFilter ==
    /\ pc = "category"
    /\ all_categories' = Options(df_filtered_state, "Category")
    /\ selected_category' \in Selectbox(all_categories')
    /\ df_filtered_category' =
           FilterBy(df_filtered_state, "Category", selected_category')
    /\ pc' = "subcat"
    /\ UNCHANGED <<df_original, all_regions, selected_region, df_filtered_region,
                   all_states, selected_state, df_filtered_state,
                   all_subcats, selected_subcat, df, date_vars, kpi_vars,
                   chart_vars, exception>>

SubCategoryFilter ==
    /\ pc = "subcat"
    /\ all_subcats' = Options(df_filtered_category, "SubCategory")
    /\ selected_subcat' \in Selectbox(all_subcats')
    /\ df' = FilterBy(df_filtered_category, "SubCategory", selected_subcat')
    /\ pc' = "dates"
    /\ UNCHANGED <<df_original, all_regions, selected_region, df_filtered_region,
                   all_states, selected_state, df_filtered_state,
                   all_categories, selected_category, df_filtered_category,
                   date_vars, kpi_vars, chart_vars, exception>>

\* -------------------------------------------------------------- date range
\* The frame whose dates bound the two date inputs.
DateSource(frame, original) == IF frame = <<>> THEN original ELSE frame

DateRange ==
    /\ pc = "dates"
    /\ min_date' = SetMin(Unique(DateSource(df, df_original), "OrderDate"))
    /\ max_date' = SetMax(Unique(DateSource(df, df_original), "OrderDate"))
    /\ from_date' \in DateOf(min_date')..DateOf(max_date')
    /\ to_date' \in DateOf(min_date')..DateOf(max_date')
    /\ sidebar_error' = (from_date' > to_date')
    /\ df' = DateFilter(df, from_date', to_date')
    /\ pc' = "kpis"
    /\ UNCHANGED <<df_original, filter_vars, kpi_vars, chart_vars, exception>>

\* --------------------------------------------------------------- KPI tiles
CalculateKPIs ==
    /\ pc = "kpis"
    /\ IF df = <<>>
       THEN /\ total_sales' = format_number(0)
            /\ total_quantity' = [mantissa |-> Rat(0, 1), suffix |-> ""]
            /\ total_profit' = format_number(0)
            /\ margin_rate' = Rat(0, 1)
       ELSE /\ total_sales' = format_number(ColSum(df, "Sales"))
            /\ total_quantity' =
                   [mantissa |-> Rat(ColSum(df, "Quantity"), 1000), suffix |-> "K"]
            /\ total_profit' = format_number(ColSum(df, "Profit"))
            /\ margin_rate' =
                   IF ColSum(df, "Sales") /= 0
                   THEN Rat(ColSum(df, "Profit") * 100, ColSum(df, "Sales"))
                   ELSE Rat(0, 1)
    /\ pc' = "charts"
    /\ UNCHANGED <<df_original, filter_vars, df, date_vars, chart_vars, exception>>

\* ------------------------------------------------------------------ charts
\* The guarded branch: no data, a warning and nothing else.
NoDataWarning ==
    /\ pc = "charts"
    /\ df = <<>>
    /\ warning' = TRUE
    /\ pc' = "pies"
    /\ UNCHANGED <<df_original, filter_vars, df, date_vars, kpi_vars, defined,
                   selected_kpi, daily_grouped, product_grouped, top_10, exception>>

\* The else branch: the KPI radio, both groupings, the sort and the top 10.
PrepareCharts ==
    /\ pc = "charts"
    /\ df /= <<>>
    /\ selected_kpi' \in Range(kpi_options)
    /\ daily_grouped' = Grouped(df, "OrderDate")
    /\ product_grouped' \in
           SortValuesDescending(Grouped(df, "ProductName"), selected_kpi')
    /\ top_10' = HeadN(product_grouped', TopN)
    /\ defined' = {"selected_kpi", "daily_grouped", "product_grouped", "top_10"}
    /\ pc' = "pies"
    /\ UNCHANGED <<df_original, filter_vars, df, date_vars, kpi_vars, warning,
                   exception>>

\* The exception the pie charts and the treemap end the run with, if any:
\* they read selected_kpi, bound only by the else branch above, and ask
\* plotly for that column of df, which has no "Margin Rate" column.
PieException(names, kpi) ==
    IF "selected_kpi" \notin names THEN "NameError"
    ELSE IF kpi \notin DfColumns THEN "ValueError"
    ELSE "none"

PiesAndTreemap ==
    /\ pc = "pies"
    /\ PieException(defined, selected_kpi) = "none"
    /\ pc' = "done"
    /\ UNCHANGED <<df_original, filter_vars, df, date_vars, kpi_vars, chart_vars,
                   exception>>

PiesRaise ==
    /\ pc = "pies"
    /\ PieException(defined, selected_kpi) /= "none"
    /\ exception' = PieException(defined, selected_kpi)
    /\ pc' = "crashed"
    /\ UNCHANGED <<df_original, filter_vars, df, date_vars, kpi_vars, chart_vars>>

\* The next interaction reruns the script from the top in a fresh namespace.
Rerun ==
    /\ pc \in {"done", "crashed"}
    /\ pc' = "region"
    /\ all_regions' = <<>> /\ selected_region' = All /\ df_filtered_region' = <<>>
    /\ all_states' = <<>> /\ selected_state' = All /\ df_filtered_state' = <<>>
    /\ all_categories' = <<>> /\ selected_category' = All
    /\ df_filtered_category' = <<>>
    /\ all_subcats' = <<>> /\ selected_subcat' = All
    /\ df' = <<>>
    /\ min_date' = 0 /\ max_date' = 0 /\ from_date' = 0 /\ to_date' = 0
    /\ sidebar_error' = FALSE
    /\ total_sales' = format_number(0) /\ total_quantity' = format_number(0)
    /\ total_profit' = format_number(0) /\ margin_rate' = Rat(0, 1)
    /\ warning' = FALSE /\ defined' = {}
    /\ selected_kpi' = "" /\ daily_grouped' = <<>> /\ product_grouped' = <<>>
    /\ top_10' = <<>>
    /\ exception' = "none"
    /\ UNCHANGED df_original

Next ==
    \/ RegionFilter
    \/ StateFilter
    \/ CategoryFilter
    \/ SubCategoryFilter
    \/ DateRange
    \/ CalculateKPIs
    \/ NoDataWarning
    \/ PrepareCharts
    \/ PiesAndTreemap
    \/ PiesRaise
    \/ Rerun

Spec == Init /\ [][Next]_vars

\* ----------------------------------------------------------------- claims
\* Sections of a run, by what has run already.
PastFilters == pc \in {"dates", "kpis", "charts", "pies", "done", "crashed"}
PastDates == pc \in {"kpis", "charts", "pies", "done", "crashed"}
PastKPIs == pc \in {"charts", "pies", "done", "crashed"}
PastCharts == pc \in {"pies", "done", "crashed"}

\* The rows of the dataset that match the selections, read off the dataset
\* itself rather than off the chain of frames.
MatchRegion(r) == selected_region = All \/ r.Region = selected_region
MatchState(r) == selected_state = All \/ r.State = selected_state
MatchCategory(r) == selected_category = All \/ r.Category = selected_category
MatchSubCategory(r) == selected_subcat = All \/ r.SubCategory = selected_subcat
MatchAll(r) == MatchRegion(r) /\ MatchState(r) /\ MatchCategory(r) /\ MatchSubCategory(r)

DatasetRows == Range(df_original)
Narrowed == {r \in DatasetRows : MatchAll(r)}

Count(frame, r) == Cardinality({i \in DOMAIN frame : frame[i] = r})

\* C1: the WorkingSet is a subset of the Dataset: every frame of the filter
\* chain, and the WorkingSet the date filter leaves, holds only rows of the
\* Dataset, none more often than the Dataset holds it.
SubFrame(frame) == \A i \in DOMAIN frame : Count(frame, frame[i]) <= Count(df_original, frame[i])
C1_WorkingSetSubset ==
    /\ SubFrame(df_filtered_region) /\ SubFrame(df_filtered_state)
    /\ SubFrame(df_filtered_category) /\ SubFrame(df)

\* A run that narrowed by region and by date to a proper, non-empty part.
C1_Witness ==
    /\ pc = "done" /\ selected_region /= All /\ from_date = to_date
    /\ df /= <<>> /\ Len(df) < Len(df_filtered_region)
    /\ Len(df_filtered_region) < Len(df_original)

\* C2: the state options are exactly the states of the Dataset rows matching
\* the region selection, the category options those of the rows matching
\* region and state, the sub-category options those of the rows matching
\* region, state and category.
C2_CascadingOptions ==
    /\ pc \notin {"region", "state"} =>
         Range(all_states) = {r.State : r \in {x \in DatasetRows : MatchRegion(x)}}
    /\ pc \notin {"region", "state", "category"} =>
         Range(all_categories) =
           {r.Category : r \in {x \in DatasetRows : MatchRegion(x) /\ MatchState(x)}}
    /\ PastFilters =>
         Range(all_subcats) =
           {r.SubCategory : r \in {x \in DatasetRows :
                MatchRegion(x) /\ MatchState(x) /\ MatchCategory(x)}}

\* Every list is narrower than the column of the whole Dataset.
C2_Witness ==
    /\ PastFilters
    /\ selected_region /= All /\ selected_state /= All /\ selected_category /= All
    /\ Range(all_states) /= Unique(df_original, "State")
    /\ Range(all_categories) /= Unique(df_original, "Category")
    /\ Range(all_subcats) /= Unique(df_original, "SubCategory")

\* C3: marginRate is 0 whenever the sales sum is 0: for the KPI tile over
\* the WorkingSet and for every group of the daily and product groupings.
C3_MarginRateZeroGuard ==
    /\ (PastKPIs /\ ColSum(df, "Sales") = 0) => margin_rate.num = 0
    /\ \A i \in DOMAIN daily_grouped :
         daily_grouped[i].Sales = 0 => daily_grouped[i]["Margin Rate"].num = 0
    /\ \A i \in DOMAIN product_grouped :
         product_grouped[i].Sales = 0 => product_grouped[i]["Margin Rate"].num = 0

\* C4: with fromDate > toDate the run shows the validation error, computes
\* an empty WorkingSet and runs through to the end without an exception.
C4_InvalidRangeCompletes ==
    from_date > to_date =>
        /\ sidebar_error
        /\ df = <<>>
        /\ pc /= "crashed" /\ exception = "none"

\* C5: with an empty WorkingSet every KPI is zero, marginRate is 0, both
\* groupings and the top 10 are empty, and no stage raises.
C5_EmptyDegrades ==
    (PastKPIs /\ df = <<>>) =>
        /\ total_sales.mantissa.num = 0 /\ total_quantity.mantissa.num = 0
        /\ total_profit.mantissa.num = 0 /\ margin_rate.num = 0
        /\ daily_grouped = <<>> /\ product_grouped = <<>> /\ top_10 = <<>>
        /\ pc /= "crashed" /\ exception = "none"

\* The product grouping the ranking is given: one row per product of the
\* WorkingSet, in key order, before the sort.
InputGrouping == Grouped(df, "ProductName")
\* The place of a product in the input grouping.
InputPlace(product) == CHOOSE i \in DOMAIN InputGrouping : InputGrouping[i].key = product
\* The selected metric of a grouped row.
Metric(g) == KpiValue(g, selected_kpi)
Smaller(m, n) == IF m < n THEN m ELSE n

C7_StableOnTies ==
    /\ \A i, j \in DOMAIN product_grouped :
         (i < j /\ RatEq(Metric(product_grouped[i]), Metric(product_grouped[j])))
            => InputPlace(product_grouped[i].key) < InputPlace(product_grouped[j].key)
    /\ \A i, j \in DOMAIN top_10 :
         (i < j /\ RatEq(Metric(top_10[i]), Metric(top_10[j])))
            => InputPlace(top_10[i].key) < InputPlace(top_10[j].key)

\* C8: with fromDate = toDate = D, a day present in the categorically
\* narrowed subset, the WorkingSet is exactly the rows of that subset whose
\* order date falls on D, whatever their time of day.
C8_SingleDayInclusive ==
    (PastDates /\ from_date = to_date
       /\ \E r \in Narrowed : DateOf(r.OrderDate) = from_date)
    => Range(df) = {r \in Narrowed : DateOf(r.OrderDate) = from_date}

\* Sum of a column over the rows of a grouping or frame, by index.
RECURSIVE SumTo(_, _, _)
SumTo(frame, col, n) == IF n = 0 THEN 0 ELSE frame[n][col] + SumTo(frame, col, n - 1)
Total(frame, col) == SumTo(frame, col, Len(frame))

\* C9: the group sums of sales, quantity and profit add up to the sums over
\* the rows, for the product and for the daily grouping, and every row
\* falls in exactly one group of each.
C9_PartitionOfSum ==
    "product_grouped" \in defined =>
        /\ \A col \in {"Sales", "Quantity", "Profit"} :
             /\ Total(product_grouped, col) = Total(df, col)
             /\ Total(daily_grouped, col) = Total(df, col)
        /\ \A i \in DOMAIN df :
             /\ Cardinality({k \in DOMAIN product_grouped :
                    product_grouped[k].key = df[i].ProductName}) = 1
             /\ Cardinality({k \in DOMAIN daily_grouped :
                    daily_grouped[k].key = df[i].OrderDate}) = 1

\* The full Dataset, several rows to a group, several groups.
C9_Witness ==
    /\ "product_grouped" \in defined /\ df = df_original
    /\ Len(daily_grouped) > 1 /\ Len(daily_grouped) < Len(df)
    /\ Len(product_grouped) > 1

\* C10: with every selection "All" or an offered option, the subset left
\* by the sub-category filter is not empty, so the date bounds are always
\* taken from that subset and never from the whole Dataset, and an empty
\* WorkingSet comes from the date range alone.
C10_NarrowedNonEmpty ==
    /\ pc = "dates" => (df /= <<>> /\ Range(df) = Narrowed)
    /\ PastFilters => Narrowed /= {}
    /\ PastDates =>
         /\ min_date = SetMin({r.OrderDate : r \in Narrowed})
         /\ max_date = SetMax({r.OrderDate : r \in Narrowed})
         /\ df = <<>> => \A r \in Narrowed :
                ~(ToDatetime(from_date) <= r.OrderDate /\ r.OrderDate <= ToDatetime(to_date))

\* Every select box narrowed, and the date range then left nothing.
C10_Witness ==
    /\ PastDates /\ df = <<>>
    /\ selected_region /= All /\ selected_state /= All
    /\ selected_category /= All /\ selected_subcat /= All
    /\ Cardinality(Narrowed) < Len(df_original)

====
